---------------------------- MODULE Spec2Model ----------------------------
(***************************************************************************)
(* Azure Updates "Launched" dashboard (src/streamlit_app.py).              *)
(*                                                                         *)
(* A Streamlit script: every user interaction runs the script from the top *)
(* (a render pass): fetch the page through a 30-minute cache, parse the    *)
(* update anchors into records, filter, de-duplicate by link, sort by date *)
(* and render.                                                             *)
(*                                                                         *)
(* Text is modelled by its structure, so that parsing is computed and not  *)
(* assumed: a date string is a record saying which shape it has (ISO with  *)
(* or without clock and offset, month-day-year with full or abbreviated    *)
(* month and with or without comma, free words, empty); an href is its     *)
(* sequence of parts; a title is its sequence of characters; a status is   *)
(* its sequence of words.  Instants are POSIX seconds.                     *)
(***************************************************************************)
EXTENDS Integers, Sequences, FiniteSets, TLC

VARIABLES
    now,         \* wall clock, POSIX seconds
    cache,       \* st.cache_data entry of fetch_updates_page(UPDATES_URL)
    pc,          \* position of the running script (or where it ended)
    html_text,   \* line 170
    updates,     \* line 179
    launched,    \* lines 182-193
    errors,      \* st.error messages shown in this pass
    ran,         \* the steps this pass has executed, in order
    didFetch,    \* the body of fetch_updates_page ran in this pass
    clicked,     \* this pass was triggered by the Refresh Data button
    afterClear,  \* this pass was started by st.cache_data.clear(); st.rerun()
    prevFailed   \* the previous pass ended in the fetch-failure halt

vars == <<now, cache, pc, html_text, updates, launched, errors, ran,
          didFetch, clicked, afterClear, prevFailed>>

---------------------------------------------------------------------------
(* Bounds of the exploration *)

MaxAnchors == 2
MaxTicks == 2
TickSecs == 900

Day == 24 * 3600
Dec4 == 20426 * Day
Dec5 == 20427 * Day
Jan15 == 20468 * Day
StartTime == 20428 * Day          \* 2025-12-06T00:00:00Z
UnixEpoch == 0 * Day               \* 1970-01-01T00:00:00Z

---------------------------------------------------------------------------
(* Strings that may hold a date *)

Str(kind, month, comma, date, clock, suffix) ==
    [kind |-> kind, month |-> month, comma |-> comma, date |-> date,
     clock |-> clock, suffix |-> suffix]

EmptyS == Str("empty", "", FALSE, 0, "", "")
Words == Str("words", "", FALSE, 0, "", "")             \* "sometime next year"
IsoZ(d, clock) == Str("iso", "", FALSE, d, clock, "Z")  \* 2025-12-04T10:00:00Z
IsoOff(d, clock, off) == Str("iso", "", FALSE, d, clock, off)
IsoLocal(d, clock) == Str("iso", "", FALSE, d, clock, "")
IsoDate(d) == Str("iso", "", FALSE, d, "", "")          \* 2025-12-05
Mdy(month, comma, d) == Str("mdy", month, comma, d, "", "")

ClockSecs(clock) ==
    CASE clock = "" -> 0
      [] clock = "T10:00:00" -> 10 * 3600
      [] OTHER -> 0

OffsetSecs(suffix) ==
    CASE suffix = "+05:30" -> 5 * 3600 + 1800
      [] OTHER -> 0

(* datetime values; None is NoneDt.  A naive datetime has tz = "naive" and *)
(* t its wall clock read as if UTC.                                        *)
Dt(t, tz) == [t |-> t, tz |-> tz]
NoneDt == Dt(0, "none")

\* str.replace("Z", "+00:00"), line 109
ReplaceZ(s) == IF s.suffix = "Z" THEN [s EXCEPT !.suffix = "+00:00"] ELSE s

\* str.replace(',', ''), line 131
StripComma(s) == [s EXCEPT !.comma = FALSE]

\* datetime.fromisoformat; NoneDt stands for ValueError
FromIsoFormat(s) ==
    IF s.kind # "iso" THEN NoneDt
    ELSE IF s.suffix = "" THEN Dt(s.date + ClockSecs(s.clock), "naive")
    ELSE IF s.clock = "" THEN NoneDt
    ELSE IF s.suffix = "+00:00" THEN Dt(s.date + ClockSecs(s.clock), "utc")
    ELSE IF s.suffix = "+05:30"
         THEN Dt(s.date + ClockSecs(s.clock) - OffsetSecs(s.suffix), "+05:30")
    ELSE NoneDt

Fmt(kind, month, comma) == [kind |-> kind, month |-> month, comma |-> comma]
FmtBdY == Fmt("mdy", "full", TRUE)      \* "%B %d, %Y"
FmtbdY == Fmt("mdy", "abbr", TRUE)      \* "%b %d, %Y"
FmtBY == Fmt("my", "full", FALSE)       \* "%B %Y"
FmtbY == Fmt("my", "abbr", FALSE)       \* "%b %Y"
FmtYmd == Fmt("iso", "", FALSE)         \* "%Y-%m-%d"

\* datetime.strptime(s, fmt).replace(tzinfo=timezone.utc); NoneDt: ValueError
Strptime(s, fmt) ==
    IF /\ s.kind = fmt.kind
       /\ s.month = fmt.month
       /\ s.comma = fmt.comma
       /\ s.clock = ""
       /\ s.suffix = ""
    THEN Dt(s.date, "utc")
    ELSE NoneDt

TimeFormats == <<FmtBdY, FmtbdY, FmtBY, FmtbY, FmtYmd>>

RECURSIVE TryFormats(_, _, _)
TryFormats(s, fmts, i) ==
    IF i > Len(fmts) THEN NoneDt
    ELSE IF Strptime(s, fmts[i]) # NoneDt THEN Strptime(s, fmts[i])
    ELSE TryFormats(s, fmts, i + 1)

\* lines 104-117
TimeElDate(time_el) ==
    IF ~time_el.present THEN NoneDt
    ELSE LET dt_str == IF time_el.datetime # EmptyS THEN time_el.datetime
                       ELSE time_el.text
         IN  IF FromIsoFormat(ReplaceZ(dt_str)) # NoneDt
             THEN FromIsoFormat(ReplaceZ(dt_str))
             ELSE TryFormats(dt_str, TimeFormats, 1)

\* the three regular expressions of lines 123-125, each with its format
Matches(pat, s) ==
    CASE pat = "full" -> s.kind = "mdy" /\ s.month = "full"
      [] pat = "abbr" -> s.kind = "mdy" /\ s.month = "abbr"
      [] pat = "ymd" -> s.kind = "iso" /\ s.clock = "" /\ s.suffix = ""
      [] OTHER -> FALSE

date_patterns ==
    << [pattern |-> "full", fmt |-> FmtBdY],
       [pattern |-> "abbr", fmt |-> FmtbdY],
       [pattern |-> "ymd", fmt |-> FmtYmd] >>

\* re.search: the leftmost match in the container text, EmptyS for no match
RECURSIVE Search(_, _, _)
Search(pat, text, i) ==
    IF i > Len(text) THEN EmptyS
    ELSE IF Matches(pat, text[i]) THEN text[i]
    ELSE Search(pat, text, i + 1)

\* lines 127-134
RECURSIVE TryPatterns(_, _)
TryPatterns(text, i) ==
    IF i > Len(date_patterns) THEN NoneDt
    ELSE LET match == Search(date_patterns[i].pattern, text, 1)
             parsed == Strptime(StripComma(match), date_patterns[i].fmt)
         IN  IF match # EmptyS /\ parsed # NoneDt THEN parsed
             ELSE TryPatterns(text, i + 1)

\* container.get_text(): the time element's text is part of it
ContainerText(container) ==
    IF container.time_el.present /\ container.time_el.text # EmptyS
    THEN <<container.time_el.text>> \o container.text
    ELSE container.text

\* lines 100-134: the date before the last fallback
ExtractDate(container) ==
    IF TimeElDate(container.time_el) # NoneDt
    THEN TimeElDate(container.time_el)
    ELSE TryPatterns(ContainerText(container), 1)

\* the fallback of the feed-based variants: the epoch instead of the clock
FallbackEpoch(clock) == Dt(UnixEpoch, "utc")

\* lines 136-137
FallbackDate(clock) == Dt(clock, "utc")

CardDate(container, clock) ==
    IF ExtractDate(container) # NoneDt THEN ExtractDate(container)
    ELSE FallbackDate(clock)

---------------------------------------------------------------------------
(* Anchors, hrefs, titles, statuses *)

Origin == "https://azure.microsoft.com"
UpdatesDir == "/en-us/updates/"

\* href.startswith("http")
StartsWithHttp(href) == href # <<>> /\ Head(href) = Origin

\* line 72
IsNavigation(href) ==
    \/ \E i \in 1..(Len(href) - 1) :
          href[i] = UpdatesDir /\ href[i + 1] \in {"?query=cloud", "#main"}
    \/ href[Len(href)] = UpdatesDir
    \/ href[Len(href)] = "/en-us/updates"

\* line 82
FullLink(href) == IF StartsWithHttp(href) THEN href ELSE <<Origin>> \o href

\* line 79
TitleRejected(title) == title = <<>> \/ Len(title) < 5

\* line 98
DefaultStatus == <<"Launched">>
StatusOf(container) ==
    IF container.status_el.present THEN container.status_el.words
    ELSE DefaultStatus

Lower(w) ==
    CASE w = "Launched" -> "launched"
      [] w = "Available" -> "available"
      [] w = "GA" -> "ga"
      [] w = "General" -> "general"
      [] w = "Availability" -> "availability"
      [] w = "Generally" -> "generally"
      [] w = "Retired" -> "retired"
      [] w = "Public" -> "public"
      [] w = "Preview" -> "preview"
      [] OTHER -> w

\* lines 163-165: \b(launched|available|ga|general availability)\b
is_launched(status_text) ==
    \/ \E i \in 1..Len(status_text) :
          Lower(status_text[i]) \in {"launched", "available", "ga"}
    \/ \E i \in 1..(Len(status_text) - 1) :
          /\ Lower(status_text[i]) = "general"
          /\ Lower(status_text[i + 1]) = "availability"

\* line 10
UPDATES_URL == <<Origin, "/en-us/updates", "?filters=[\"", "Launched", "\"]">>

\* "Launched" in UPDATES_URL
UrlNamesLaunched == \E i \in 1..Len(UPDATES_URL) : UPDATES_URL[i] = "Launched"

---------------------------------------------------------------------------
(* parse_updates *)

\* lines 66-80: the positions of the anchors that yield a record
RECURSIVE KeptFrom(_, _, _)
KeptFrom(anchors, i, seen_links) ==
    IF i > Len(anchors) THEN <<>>
    ELSE LET href == anchors[i].href IN
         IF href = <<>> \/ href \in seen_links
         THEN KeptFrom(anchors, i + 1, seen_links)
         ELSE IF IsNavigation(href)
         THEN KeptFrom(anchors, i + 1, seen_links)
         ELSE IF TitleRejected(anchors[i].title)
         THEN KeptFrom(anchors, i + 1, seen_links \cup {href})
         ELSE <<i>> \o KeptFrom(anchors, i + 1, seen_links \cup {href})

Kept(html) == KeptFrom(html.anchors, 1, {})

\* lines 82-159; tags and description_html are not read before rendering
MakeRecord(anchor, clock) ==
    [status |-> StatusOf(anchor.container),
     title |-> anchor.title,
     date |-> CardDate(anchor.container, clock),
     link |-> FullLink(anchor.href)]

\* lines 54-161.  Each record reads the clock itself (line 137): the k-th
\* record is made drift * (k - 1) after the first, drift being 0 when the
\* clock does not move between two records.
parse_updates(html, clock, drift) ==
    [k \in 1..Len(Kept(html)) |->
        MakeRecord(html.anchors[Kept(html)[k]], clock + drift * (k - 1))]

---------------------------------------------------------------------------
(* Filter, de-duplicate, sort *)

\* the status check alone, without the test of the URL
KeepsLaunchedOnly(u) == is_launched(u.status)

\* line 182, the condition of the comprehension
KeepsRecord(u) == is_launched(u.status) \/ UrlNamesLaunched

RECURSIVE SelectRecords(_, _)
SelectRecords(us, i) ==
    IF i > Len(us) THEN <<>>
    ELSE IF KeepsRecord(us[i]) THEN <<us[i]>> \o SelectRecords(us, i + 1)
    ELSE SelectRecords(us, i + 1)

\* lines 184-189
RECURSIVE UniqueFrom(_, _, _)
UniqueFrom(us, i, seen) ==
    IF i > Len(us) THEN <<>>
    ELSE IF us[i].link \notin seen
         THEN <<us[i]>> \o UniqueFrom(us, i + 1, seen \cup {us[i].link})
    ELSE UniqueFrom(us, i + 1, seen)

\* a loop that never skips a record
KeepEveryRecord(us) == us

unique_launched(us) == UniqueFrom(us, 1, {})

\* datetime comparison raises TypeError between naive and aware values
Naive(d) == d.tz = "naive"
MixedDates(us) ==
    \E i, j \in 1..Len(us) : Naive(us[i].date) /\ ~Naive(us[j].date)

\* list.sort(key=date, reverse=True): stable, newest first.  u goes after
\* every element whose date is not older than its own.
RECURSIVE InsertDesc(_, _)
InsertDesc(sorted, u) ==
    IF sorted = <<>> THEN <<u>>
    ELSE IF Head(sorted).date.t >= u.date.t
         THEN <<Head(sorted)>> \o InsertDesc(Tail(sorted), u)
    ELSE <<u>> \o sorted

RECURSIVE SortFrom(_, _, _)
SortFrom(us, i, acc) ==
    IF i > Len(us) THEN acc
    ELSE SortFrom(us, i + 1, InsertDesc(acc, us[i]))

\* a sort that puts a record before the records with its date
RECURSIVE InsertBeforeTies(_, _)
InsertBeforeTies(sorted, u) ==
    IF sorted = <<>> THEN <<u>>
    ELSE IF Head(sorted).date.t > u.date.t
         THEN <<Head(sorted)>> \o InsertBeforeTies(Tail(sorted), u)
    ELSE <<u>> \o sorted

RECURSIVE SortTiesFrom(_, _, _)
SortTiesFrom(us, i, acc) ==
    IF i > Len(us) THEN acc
    ELSE SortTiesFrom(us, i + 1, InsertBeforeTies(acc, us[i]))

SortTiesReversed(us) == SortTiesFrom(us, 1, <<>>)

SortNewestFirst(us) == SortFrom(us, 1, <<>>)

---------------------------------------------------------------------------
(* The pages explored *)

RelA == <<UpdatesDir, "widget-ga">>
AbsA == <<Origin, UpdatesDir, "widget-ga">>
RelB == <<UpdatesDir, "blob-tiers">>
NavDir == <<UpdatesDir>>
NavQuery == <<UpdatesDir, "?query=cloud">>

TitleAzure == <<"A", "z", "u", "r", "e">>
TitleWidget == <<"W", "i", "d", "g", "e", "t">>
TitleBlobs == <<"B", "l", "o", "b", "s">>
TitleBlob == <<"B", "l", "o", "b">>

LinkParts ==
    { [href |-> RelA, title |-> TitleAzure],
      [href |-> RelA, title |-> <<>>],
      [href |-> AbsA, title |-> TitleWidget],
      [href |-> RelB, title |-> TitleBlobs],
      [href |-> RelB, title |-> TitleBlob],
      [href |-> NavDir, title |-> TitleAzure],
      [href |-> NavQuery, title |-> TitleAzure] }

NoStatusEl == [present |-> FALSE, words |-> <<>>]
StatusEl(words) == [present |-> TRUE, words |-> words]
NoTimeEl == [present |-> FALSE, datetime |-> EmptyS, text |-> EmptyS]
TimeEl(datetime, text) ==
    [present |-> TRUE, datetime |-> datetime, text |-> text]
Card(status_el, time_el, text) ==
    [status_el |-> status_el, time_el |-> time_el, text |-> text]

\* <time datetime="2025-12-04T10:00:00Z">
CardAware == Card(NoStatusEl, TimeEl(IsoZ(Dec4, "T10:00:00"), EmptyS), <<>>)
\* a Retired badge, <time datetime="2025-12-05T10:00:00Z">
CardRetired ==
    Card(StatusEl(<<"Retired">>), TimeEl(IsoZ(Dec5, "T10:00:00"), EmptyS), <<>>)
\* <time datetime="2025-12-05">
CardDateOnly == Card(NoStatusEl, TimeEl(IsoDate(Dec5), EmptyS), <<>>)
\* <time>Dec 4, 2025</time>
CardTimeText ==
    Card(StatusEl(<<"Generally", "Available">>),
         TimeEl(EmptyS, Mdy("abbr", TRUE, Dec4)), <<>>)
\* no time element, "December 5, 2025" in the text
CardTextFull == Card(NoStatusEl, NoTimeEl, <<Words, Mdy("full", TRUE, Dec5)>>)
\* no time element, "Dec 5 2025" in the text
CardTextAbbr == Card(NoStatusEl, NoTimeEl, <<Mdy("abbr", FALSE, Dec5)>>)
\* no time element, "2025-12-04" in the text
CardTextIso == Card(NoStatusEl, NoTimeEl, <<IsoDate(Dec4)>>)
\* a Public Preview badge, <time>sometime next year</time>
CardUndated ==
    Card(StatusEl(<<"Public", "Preview">>), TimeEl(EmptyS, Words), <<Words>>)
\* <time datetime="2026-01-15T10:00:00Z">, later than the pass
CardFuture == Card(NoStatusEl, TimeEl(IsoZ(Jan15, "T10:00:00"), EmptyS), <<>>)

Cards ==
    { CardAware, CardRetired, CardDateOnly, CardTimeText, CardTextFull,
      CardTextAbbr, CardTextIso, CardUndated, CardFuture }

MakeAnchor(l, c) == [href |-> l.href, title |-> l.title, container |-> c]

Anchors == { MakeAnchor(l, c) : l \in LinkParts, c \in Cards }

\* the anchors of the pages the site serves in Spec: enough for every step of
\* a pass to happen, the raising sort included
ServedAnchors ==
    { MakeAnchor(l, c) :
        l \in { [href |-> RelA, title |-> TitleAzure],
                [href |-> RelB, title |-> TitleBlobs] },
        c \in { CardAware, CardDateOnly } }

SeqsUpTo(S, n) == UNION { [1..k -> S] : k \in 0..n }

\* page.content() is never the empty string; EmptyStr is the "" of line 52
Html(anchors) == [kind |-> "html", anchors |-> anchors]
EmptyStr == [kind |-> "empty", anchors |-> <<>>]

Pages == { Html(a) : a \in SeqsUpTo(Anchors, MaxAnchors) }
ServedPages == { Html(a) : a \in SeqsUpTo(ServedAnchors, MaxAnchors) }

---------------------------------------------------------------------------
(* The cache of @st.cache_data(ttl=60 * 30), one key: UPDATES_URL *)

TTL == 60 * 30

NoEntry == [present |-> FALSE, value |-> EmptyStr, at |-> 0]
Entry(value, at) == [present |-> TRUE, value |-> value, at |-> at]

\* an entry served up to and including the ttl
FreshInclusive(entry, clock) == entry.present /\ clock - entry.at <= TTL

\* the entry is served while it is younger than the ttl
Fresh(entry, clock) == entry.present /\ clock - entry.at < TTL

\* whatever the body returns is stored, the "" of line 52 as well
Stored(value, clock) == Entry(value, clock)

\* a check that never stops the script
NeverStops(html) == FALSE

\* line 171
NotHtml(html) == html = EmptyStr

---------------------------------------------------------------------------
(* The render pass *)

Ended == {"rendered", "halted", "crashed"}

Init ==
    /\ now = StartTime
    /\ cache = NoEntry
    /\ pc = "start"
    /\ html_text = EmptyStr
    /\ updates = <<>>
    /\ launched = <<>>
    /\ errors = <<>>
    /\ ran = <<>>
    /\ didFetch = FALSE
    /\ clicked = FALSE
    /\ afterClear = FALSE
    /\ prevFailed = FALSE

\* a new run of the script from line 1
NewPass(byClick, byClear, failed) ==
    /\ pc' = "start"
    /\ html_text' = EmptyStr
    /\ updates' = <<>>
    /\ launched' = <<>>
    /\ errors' = <<>>
    /\ ran' = <<>>
    /\ didFetch' = FALSE
    /\ clicked' = byClick
    /\ afterClear' = byClear
    /\ prevFailed' = failed

\* lines 22-48 on a cache miss: the browser returns the rendered page
FetchMissOk ==
    /\ pc = "start"
    /\ ~Fresh(cache, now)
    /\ \E page \in ServedPages :
          /\ html_text' = page
          /\ cache' = Stored(page, now)
    /\ didFetch' = TRUE
    /\ ran' = Append(ran, "fetch")
    /\ pc' = "fetched"
    /\ UNCHANGED <<now, updates, launched, errors, clicked, afterClear,
                   prevFailed>>

\* lines 50-52 on a cache miss: any exception becomes st.error and ""
FetchMissFail ==
    /\ pc = "start"
    /\ ~Fresh(cache, now)
    /\ html_text' = EmptyStr
    /\ cache' = Stored(EmptyStr, now)
    /\ errors' = Append(errors, "Error fetching page")
    /\ didFetch' = TRUE
    /\ ran' = Append(ran, "fetch")
    /\ pc' = "fetched"
    /\ UNCHANGED <<now, updates, launched, clicked, afterClear, prevFailed>>

\* line 170 on a cache hit: the stored value, the body does not run
FetchHit ==
    /\ pc = "start"
    /\ Fresh(cache, now)
    /\ html_text' = cache.value
    /\ ran' = Append(ran, "cached")
    /\ pc' = "fetched"
    /\ UNCHANGED <<now, cache, updates, launched, errors, didFetch, clicked,
                   afterClear, prevFailed>>

\* lines 171-173
StopOnEmpty ==
    /\ pc = "fetched"
    /\ NotHtml(html_text)
    /\ errors' = Append(errors, "Failed to fetch page content.")
    /\ pc' = "halted"
    /\ UNCHANGED <<now, cache, html_text, updates, launched, ran, didFetch,
                   clicked, afterClear, prevFailed>>

\* line 179
Parse ==
    /\ pc = "fetched"
    /\ ~NotHtml(html_text)
    /\ \E drift \in {0, 1} : updates' = parse_updates(html_text, now, drift)
    /\ ran' = Append(ran, "parse")
    /\ pc' = "parsed"
    /\ UNCHANGED <<now, cache, html_text, launched, errors, didFetch, clicked,
                   afterClear, prevFailed>>

\* line 182
Filter ==
    /\ pc = "parsed"
    /\ launched' = SelectRecords(updates, 1)
    /\ ran' = Append(ran, "filter")
    /\ pc' = "filtered"
    /\ UNCHANGED <<now, cache, html_text, updates, errors, didFetch, clicked,
                   afterClear, prevFailed>>

\* lines 184-190
Dedup ==
    /\ pc = "filtered"
    /\ launched' = unique_launched(launched)
    /\ ran' = Append(ran, "dedup")
    /\ pc' = "deduped"
    /\ UNCHANGED <<now, cache, html_text, updates, errors, didFetch, clicked,
                   afterClear, prevFailed>>

\* line 193
Sort ==
    /\ pc = "deduped"
    /\ ~MixedDates(launched)
    /\ launched' = SortNewestFirst(launched)
    /\ ran' = Append(ran, "sort")
    /\ pc' = "sorted"
    /\ UNCHANGED <<now, cache, html_text, updates, errors, didFetch, clicked,
                   afterClear, prevFailed>>

\* line 193 raising TypeError: the script run ends, the list is not read again
SortRaises ==
    /\ pc = "deduped"
    /\ MixedDates(launched)
    /\ ran' = Append(ran, "sort")
    /\ pc' = "crashed"
    /\ UNCHANGED <<now, cache, html_text, updates, launched, errors, didFetch,
                   clicked, afterClear, prevFailed>>

\* lines 196-237 when the button was not pressed
Render ==
    /\ pc = "sorted"
    /\ ~clicked
    /\ ran' = Append(ran, "render")
    /\ pc' = "rendered"
    /\ UNCHANGED <<now, cache, html_text, updates, launched, errors, didFetch,
                   clicked, afterClear, prevFailed>>

\* lines 202-204 when the button was pressed
RefreshData ==
    /\ pc = "sorted"
    /\ clicked
    /\ cache' = NoEntry
    /\ NewPass(FALSE, TRUE, FALSE)
    /\ UNCHANGED now

\* the user presses Refresh Data, which a completed pass has drawn
ClickRefresh ==
    /\ pc = "rendered"
    /\ NewPass(TRUE, FALSE, FALSE)
    /\ UNCHANGED <<now, cache>>

\* any other interaction, or a reload of the page
Rerun ==
    /\ pc \in Ended
    /\ NewPass(FALSE, FALSE, pc = "halted")
    /\ UNCHANGED <<now, cache>>

\* time passes between two passes
Tick ==
    /\ pc \in Ended
    /\ now + TickSecs <= StartTime + MaxTicks * TickSecs
    /\ now' = now + TickSecs
    /\ UNCHANGED <<cache, pc, html_text, updates, launched, errors, ran,
                   didFetch, clicked, afterClear, prevFailed>>

Next ==
    \/ FetchMissOk
    \/ FetchMissFail
    \/ FetchHit
    \/ StopOnEmpty
    \/ Parse
    \/ Filter
    \/ Dedup
    \/ Sort
    \/ SortRaises
    \/ Render
    \/ RefreshData
    \/ ClickRefresh
    \/ Rerun
    \/ Tick

Spec == Init /\ [][Next]_vars

(* The steps after a successful fetch, over every page of Pages *)
InitPipe ==
    /\ now = StartTime
    /\ html_text \in Pages
    /\ cache = Stored(html_text, now)
    /\ pc = "fetched"
    /\ updates = <<>>
    /\ launched = <<>>
    /\ errors = <<>>
    /\ ran = <<"fetch">>
    /\ didFetch = TRUE
    /\ clicked = FALSE
    /\ afterClear = FALSE
    /\ prevFailed = FALSE

NextPipe ==
    \/ Parse
    \/ Filter
    \/ Dedup
    \/ Sort
    \/ SortRaises
    \/ Render

SpecPipe == InitPipe /\ [][NextPipe]_vars

---------------------------------------------------------------------------
(* Properties *)

Idx(us) == 1..Len(us)

\* the anchor updates[k] was made from
SrcOf(k) == html_text.anchors[Kept(html_text)[k]]

\* the anchor a record of the de-duplicated list was made from: that of the
\* first record of updates with its link
SrcOfLink(link) ==
    SrcOf(CHOOSE k \in Idx(updates) :
            /\ updates[k].link = link
            /\ \A j \in 1..(k - 1) : updates[j].link # link)

\* the code finds no date in the anchor's card
Undated(anchor) == ExtractDate(anchor.container) = NoneDt

\* the indices of the first record of each link
FirstOfLink(us) ==
    { i \in Idx(us) : \A j \in 1..(i - 1) : us[j].link # us[i].link }

\* the k-th smallest element of a set of indices
Nth(S, k) == CHOOSE i \in S : Cardinality({ j \in S : j < i }) = k - 1

DedupPost(in, out) ==
    /\ \A i, j \in Idx(out) : i # j => out[i].link # out[j].link
    /\ Len(out) = Cardinality(FirstOfLink(in))
    /\ \A k \in Idx(out) : out[k] = in[Nth(FirstOfLink(in), k)]

SortPost(in, out) ==
    /\ Len(out) = Len(in)
    /\ \E p \in [Idx(in) -> Idx(in)] :
          /\ \A k, l \in Idx(in) : k # l => p[k] # p[l]
          /\ \A k \in Idx(in) : out[k] = in[p[k]]
          /\ \A k, l \in Idx(in) :
                k < l =>
                  /\ out[k].date.t >= out[l].date.t
                  /\ out[k].date.t = out[l].date.t => p[k] < p[l]

(* C1: the sort step leaves the list ordered by date, newest first, records *)
(* with equal dates in the order they had before the step, and it only      *)
(* permutes the list.                                                       *)
C1_SortStableDescending ==
    [][(pc = "deduped" /\ pc' = "sorted") => SortPost(launched, launched')]_vars

C1_Witness ==
    /\ pc = "sorted"
    /\ Len(launched) >= 2
    /\ launched[1].date.t = launched[2].date.t
    /\ launched[1].link # launched[2].link

(* C2: the de-duplication step leaves no two records with the same link,    *)
(* keeps for each link exactly the first record carrying it, and keeps the  *)
(* records in their original order.                                         *)
C2_DedupKeepsFirst ==
    [][(pc = "filtered" /\ pc' = "deduped") => DedupPost(launched, launched')]_vars

C2_Witness ==
    /\ pc = "deduped"
    /\ Len(launched) < Len(updates)
    /\ launched # <<>>

(* C3, as claimed: a record whose card has no date the code can find gets   *)
(* the Unix epoch as its date and is rendered after every record with a     *)
(* date found in its card.                                                  *)
C3_EpochSortsLast ==
    /\ pc = "parsed" =>
          \A k \in Idx(updates) :
              Undated(SrcOf(k)) => updates[k].date = Dt(UnixEpoch, "utc")
    /\ pc = "rendered" =>
          \A i, j \in Idx(launched) :
              /\ Undated(SrcOfLink(launched[i].link))
              /\ ~Undated(SrcOfLink(launched[j].link))
              => j < i

(* C3, amended: such a record gets the instant at which it is parsed as its *)
(* date, UTC, and is rendered before every record whose date is earlier     *)
(* than that instant.                                                       *)
C3_NowSortsFirst ==
    /\ pc = "parsed" =>
          \A k \in Idx(updates) :
              Undated(SrcOf(k)) =>
                  /\ updates[k].date.tz = "utc"
                  /\ updates[k].date.t >= now
                  /\ updates[k].date.t <= now + Len(updates)
    /\ pc \in {"sorted", "rendered"} =>
          \A i, j \in Idx(launched) :
              /\ Undated(SrcOfLink(launched[i].link))
              /\ ~Undated(SrcOfLink(launched[j].link))
              /\ launched[j].date.t < launched[i].date.t
              => i < j

C3_Witness ==
    /\ pc = "rendered"
    /\ \E i, j \in Idx(launched) :
          /\ i < j
          /\ Undated(SrcOfLink(launched[i].link))
          /\ launched[i].date.t >= now
          /\ ~Undated(SrcOfLink(launched[j].link))
          /\ launched[j].date.t < now

(* C4: in a pass whose fetch gave the empty payload, the script stops at    *)
(* the check after the fetch with the error shown: no parse, filter,        *)
(* de-duplication, sort or rendering runs, and no record exists.            *)
C4_FailedFetchHalts ==
    (ran # <<>> /\ html_text = EmptyStr) =>
        /\ pc \in {"fetched", "halted"}
        /\ \A i \in Idx(ran) : ran[i] \in {"fetch", "cached"}
        /\ updates = <<>>
        /\ launched = <<>>
        /\ pc = "halted" =>
              /\ errors # <<>>
              /\ errors[Len(errors)] = "Failed to fetch page content."

C4_Witness ==
    /\ pc = "halted"
    /\ didFetch
    /\ errors = <<"Error fetching page", "Failed to fetch page content.">>

(* C5: the pass that follows a pass halted by a failed fetch runs the fetch *)
(* again instead of reusing the failed result.                              *)
C5_RetryFetchesAgain ==
    (prevFailed /\ pc # "start") => didFetch

(* C6: every record parse_updates produces has a timezone-aware date, and   *)
(* the sort over the dates never raises.                                    *)
C6_DatesAwareSortNeverRaises ==
    /\ pc = "parsed" =>
          \A k \in Idx(updates) : updates[k].date.tz \notin {"naive", "none"}
    /\ pc # "crashed"

(* C7, as claimed: every rendered record has a status the launched check    *)
(* accepts.                                                                 *)
C7_RenderedAreLaunched ==
    pc = "rendered" => \A i \in Idx(launched) : is_launched(launched[i].status)

(* C7, amended: the filter keeps every parsed record whatever its status,   *)
(* because UPDATES_URL contains "Launched": the filtered list is the parsed *)
(* list, and every parsed link is rendered.                                 *)
C7_FilterKeepsAll ==
    /\ pc = "filtered" => launched = updates
    /\ pc = "rendered" =>
          \A k \in Idx(updates) :
              \E i \in Idx(launched) : launched[i].link = updates[k].link

C7_Witness ==
    /\ pc = "rendered"
    /\ \E i \in Idx(launched) :
          /\ ~is_launched(launched[i].status)
          /\ launched[i].status = <<"Retired">>

(* C8: a card with no date from a time element and a month-day-year date in *)
(* its text gives its record that date at 00:00 UTC.                        *)
C8_TextDateIsUsed ==
    pc = "parsed" =>
        \A k \in Idx(updates) :
            LET c == SrcOf(k).container
                text == ContainerText(c)
            IN  /\ TimeElDate(c.time_el) = NoneDt
                /\ \E i \in Idx(text) : text[i].kind = "mdy"
                => \E i \in Idx(text) :
                      /\ text[i].kind = "mdy"
                      /\ updates[k].date = Dt(text[i].date, "utc")

(* C9: a pass runs the real fetch exactly when the cache holds no entry     *)
(* younger than 30 minutes; otherwise it reuses the cached payload and      *)
(* leaves the entry alone; the pass started by Refresh Data, which has      *)
(* cleared the cache, runs the real fetch.                                  *)
C9_FetchOnlyWhenStale ==
    [][(pc = "start" /\ pc' = "fetched") =>
          LET young == cache.present /\ now - cache.at < 30 * 60
          IN  /\ didFetch' <=> ~young
              /\ young => (html_text' = cache.value /\ cache' = cache)
              /\ afterClear => didFetch']_vars

C9_Witness ==
    /\ pc = "fetched"
    /\ afterClear
    /\ didFetch
    /\ now > StartTime

\* the hrefs of the page that are no navigation links and have an anchor
\* with a title of 5 characters or more
TitledHrefs(html) ==
    { html.anchors[i].href : i \in
        { i \in Idx(html.anchors) :
            /\ ~IsNavigation(html.anchors[i].href)
            /\ Len(html.anchors[i].title) >= 5 } }

(* C10: parse_updates returns exactly one record for every such href,       *)
(* whatever the titles of the earlier anchors with the same href: as many   *)
(* records carry a link as there are such hrefs with that link.             *)
C10_OneRecordPerTitledHref ==
    pc = "parsed" =>
        \A h \in TitledHrefs(html_text) :
            Cardinality({ k \in Idx(updates) : updates[k].link = FullLink(h) })
            = Cardinality({ g \in TitledHrefs(html_text) :
                              FullLink(g) = FullLink(h) })

===========================================================================
